---- MODULE Spec2Model ----
(***************************************************************************)
(* ublue-update: the update orchestrator of src/ublue_update/cli.py.       *)
(*                                                                         *)
(* Every invocation of the program is one sequential process; proc[p]      *)
(* holds its inputs (uid, environment, command line, configuration), its   *)
(* position pc, the local variables of main / run_updates / notify, the    *)
(* trace of the external calls it has made with their answers, and its     *)
(* final result.  The only state shared between invocations is the table   *)
(* of advisory file locks.                                                 *)
(***************************************************************************)
EXTENDS Integers, Sequences, FiniteSets, TLC

\* ------------------------------------------------------------- bounds
\* active logind sessions get_active_sessions() can report
MaxSessions == 2
\* hardware inhibitor checks run by check_hardware_inhibitors()
NumChecks == 2

\* the invocations of the program: one runs alone under Spec, and the two
\* run concurrently under SpecConc
Procs == {1, 2}

VARIABLES proc, locks

vars == <<proc, locks>>

\* ------------------------------------------------------------- values
Root == 0 \* os.getuid() of root
User == 1000 \* os.getuid() of an unprivileged caller
Uids == {Root, User}

NoneValue == "None"
NotADirectory == "/nonexistent"
RuntimeDir(u) == IF u = User THEN "/run/user/1000" ELSE "/run/user/0"
Directories == {RuntimeDir(u) : u \in Uids}
isdir(path) == path \in Directories

\* os.environ.get("XDG_RUNTIME_DIR") of a caller: unset, a directory, or a
\* path that is no directory.  run_updates reads it only when not root.
XdgValues(u) == IF u = Root THEN {NoneValue}
                ELSE {NoneValue, RuntimeDir(u), NotADirectory}

SystemLockPath == <<"/run", "ublue-update.lock">>
UserLockPath(xdg_runtime_dir) == <<xdg_runtime_dir, "ublue-update.lock">>
LockPaths == {SystemLockPath} \cup {UserLockPath(d) : d \in Directories}

ConfirmAction == "universal-blue-update-confirm"
RebootAction == "universal-blue-update-reboot"

\* exit statuses of /usr/bin/topgrade
SystemReturnCodes == {0, 1, 2}
UserReturnCodes == {0, 1}

CliArgs == [force : BOOLEAN, check : BOOLEAN, updatecheck : BOOLEAN,
            wait : BOOLEAN, system : BOOLEAN]

\* subprocess.CompletedProcess of notify-send, or None
NoneOut == [isNone |-> TRUE, stdout |-> <<>>]
Completed(stdout) == [isNone |-> FALSE, stdout |-> stdout]
Contains(stdout, token) == \E k \in 1..Len(stdout) : stdout[k] = token

\* one external call an invocation made: the operation, the session user it
\* was made for (0: none), its argument and the answer it got
Event(op, user, arg, ans) == [op |-> op, user |-> user, arg |-> arg, ans |-> ans]

Running == [kind |-> "running", code |-> 0, msg |-> "", failures |-> <<>>]
NoFrame == [actions |-> <<>>, urgency |-> "", ret |-> "", users |-> <<>>, i |-> 0]

\* ------------------------------------------------------- process exits
Log(s, e) == [s EXCEPT !.trace = Append(@, e)]

os_exit(s, code) ==
    [s EXCEPT !.pc = "done",
              !.result = [kind |-> "exit", code |-> code % 256, msg |-> "",
                          failures |-> <<>>]]

\* an exception nothing catches: the interpreter prints it and exits with 1
raise(s, msg, failures) ==
    [s EXCEPT !.pc = "done",
              !.result = [kind |-> "exception", code |-> 1, msg |-> msg,
                          failures |-> failures]]

\* ------------------------------------------------------------ filelock
\* acquire_lock(path): non-blocking; the handle, or None (0) when held
acquire_lock(L, path, p) ==
    IF L[path] = 0 THEN [fd |-> p, locks |-> [L EXCEPT ![path] = p]]
    ELSE [fd |-> 0, locks |-> L]

release_lock(L, fd) == [q \in DOMAIN L |-> IF L[q] = fd THEN 0 ELSE L[q]]

\* The lock table after process p ended without release_lock: the lock
\* file stays claimed (a locked-but-abandoned handle) or the operating
\* system drops the descriptor's lock; both outcomes are possible.
ProcessExitLocks(L, p) == {L, release_lock(L, p)}

\* Process p moves to state s with the lock table L its step left.
Commit(p, s, L) ==
    /\ proc' = [proc EXCEPT ![p] = s]
    /\ locks' \in (IF s.pc = "done" THEN ProcessExitLocks(L, p) ELSE {L})

\* ------------------------------------------------------------- Init
Absent ==
    [uid |-> Root, environ |-> NoneValue,
     cli_args |-> [force |-> FALSE, check |-> FALSE, updatecheck |-> FALSE,
                   wait |-> FALSE, system |-> FALSE],
     cfg |-> [dbus_notify |-> FALSE],
     pc |-> "absent", system_update_available |-> FALSE,
     failures |-> <<>>, system |-> FALSE, ru_available |-> FALSE,
     entry |-> 0, filelock_path |-> SystemLockPath, fd |-> 0, users |-> <<>>, i |-> 0,
     frame |-> NoFrame, out |-> NoneOut, trace |-> <<>>, result |-> Running]

Started(u, env, args, dbus) ==
    [Absent EXCEPT !.uid = u, !.environ = env, !.cli_args = args,
                   !.cfg = [dbus_notify |-> dbus], !.pc = "main"]

Invocations ==
    {Started(u, env, args, dbus) :
        u \in Uids, env \in {NoneValue, RuntimeDir(User), NotADirectory},
        args \in CliArgs, dbus \in BOOLEAN}

Init ==
    /\ locks = [q \in LockPaths |-> 0]
    /\ proc \in {[p \in Procs |-> IF p = 1 THEN s ELSE Absent] :
                    s \in {x \in Invocations : x.environ \in XdgValues(x.uid)}}

\* ---------------------------------------------------- external oracles
\* check_hardware_inhibitors(): every check runs; the reasons of the
\* failing ones are collected in check order.  A reason is named by the
\* number of its check.
CheckResults == [1..NumChecks -> BOOLEAN]
check_hardware_inhibitors(passed) ==
    LET failures == SelectSeq([k \in 1..NumChecks |-> k], LAMBDA k : ~passed[k])
    IN  [hardware_checks_failed |-> failures # <<>>, failures |-> failures]

\* get_active_sessions(): a KeyError (-1), or the users of the active
\* sessions, named 1..n
SessionAnswers == -1..MaxSessions
Sessions(n) == IF n < 0 THEN <<>> ELSE [k \in 1..n |-> k]

BoolInt(b) == IF b THEN 1 ELSE 0

\* ---------------------------------------------------------------- main
\* the call run_updates(system, system_update_available); entry is the
\* length of the trace at the call
call_run_updates(s, system, system_update_available) ==
    [s EXCEPT !.pc = "run_updates", !.system = system,
              !.ru_available = system_update_available,
              !.entry = Len(s.trace)]

\* cli.py 227-229: --wait waits for transactions and exits
main_wait(p) ==
    LET s == proc[p] IN
    /\ s.pc = "main"
    /\ s.cli_args.wait
    /\ Commit(p, os_exit(Log(s, Event("transaction_wait", 0, "", 0)), 0), locks)

\* main_checks without the exit of --check after the inhibitor gate passed
main_checks_without_check_exit(p) ==
    LET s == proc[p] IN
    /\ s.pc = "main"
    /\ ~s.cli_args.wait
    /\ \E available \in BOOLEAN, passed \in CheckResults :
        LET s1 == Log([s EXCEPT !.system_update_available = available],
                      Event("system_update_check", 0, "", BoolInt(available)))
            gated == ~s.cli_args.force /\ ~s.cli_args.updatecheck
            r == check_hardware_inhibitors(passed)
            s2 == IF gated
                  THEN Log(s1, Event("check_hardware_inhibitors", 0, "",
                                     BoolInt(r.hardware_checks_failed)))
                  ELSE s1
        IN  /\ ~gated => \A k \in 1..NumChecks : passed[k]
            /\ Commit(p,
                 IF gated /\ r.hardware_checks_failed
                 THEN [s2 EXCEPT !.pc = "hardware_inhibitor_checks_failed",
                                 !.failures = r.failures]
                 ELSE IF s.cli_args.updatecheck
                 THEN IF ~available
                      THEN raise(s2, "Update not available", <<>>)
                      ELSE os_exit(s2, 0)
                 ELSE call_run_updates(s2, s.cli_args.system, available),
                 locks)

\* cli.py 231-251: the update check, the inhibitor gate and the dispatch on
\* --check / --updatecheck
main_checks(p) ==
    LET s == proc[p] IN
    /\ s.pc = "main"
    /\ ~s.cli_args.wait
    /\ \E available \in BOOLEAN, passed \in CheckResults :
        LET s1 == Log([s EXCEPT !.system_update_available = available],
                      Event("system_update_check", 0, "", BoolInt(available)))
            gated == ~s.cli_args.force /\ ~s.cli_args.updatecheck
            r == check_hardware_inhibitors(passed)
            s2 == IF gated
                  THEN Log(s1, Event("check_hardware_inhibitors", 0, "",
                                     BoolInt(r.hardware_checks_failed)))
                  ELSE s1
        IN  /\ ~gated => \A k \in 1..NumChecks : passed[k]
            /\ Commit(p,
                 IF gated /\ r.hardware_checks_failed
                 THEN [s2 EXCEPT !.pc = "hardware_inhibitor_checks_failed",
                                 !.failures = r.failures]
                 ELSE IF gated /\ s.cli_args.check
                 THEN os_exit(s2, 0)
                 ELSE IF s.cli_args.updatecheck
                 THEN IF ~available
                      THEN raise(s2, "Update not available", <<>>)
                      ELSE os_exit(s2, 0)
                 ELSE call_run_updates(s2, s.cli_args.system, available),
                 locks)

GatingFailure == "update failed to pass checks"

\* should_ask without the test for an available update
should_ask_without_update(hardware_check, system_update_available) ==
    ~hardware_check

\* should_ask with the test of --check turned round
should_ask_only_in_check(hardware_check, system_update_available) ==
    system_update_available /\ hardware_check

\* cli.py 80: ask the user only when an update is there and --check is not
should_ask(hardware_check, system_update_available) ==
    system_update_available /\ ~hardware_check

\* cli.py 76-86
hardware_inhibitor_checks_failed(p) ==
    LET s == proc[p] IN
    /\ s.pc = "hardware_inhibitor_checks_failed"
    /\ Commit(p,
         IF should_ask(s.cli_args.check, s.system_update_available)
         THEN [s EXCEPT !.pc = "ask_for_updates"]
         ELSE raise(s, GatingFailure, s.failures),
         locks)

\* the call notify(title, body, actions, urgency) made at a call site:
\* control continues at ret with the response in out
Offered(actions) == IF actions = <<>> THEN "" ELSE actions[1]
call_notify(s, actions, urgency, ret) ==
    [Log(s, Event("notify", 0, Offered(actions), 0))
        EXCEPT !.pc = "notify",
               !.frame = [actions |-> actions, urgency |-> urgency, ret |-> ret,
                          users |-> <<>>, i |-> 0]]

\* cli.py 60-68
ask_for_updates(p) ==
    LET s == proc[p] IN
    /\ s.pc = "ask_for_updates"
    /\ Commit(p,
         IF ~s.cfg.dbus_notify
         THEN raise(s, GatingFailure, s.failures)
         ELSE call_notify(s, <<ConfirmAction>>, "critical", "ask_for_updates_out"),
         locks)

\* ask_for_updates_out that runs the update without the --system flag
ask_for_updates_out_all_users(p) ==
    LET s == proc[p] IN
    /\ s.pc = "ask_for_updates_out"
    /\ Commit(p,
         IF s.out.isNone
         THEN raise(s, GatingFailure, s.failures)
         ELSE IF Contains(s.out.stdout, ConfirmAction)
         THEN call_run_updates(s, FALSE, TRUE)
         ELSE raise(s, GatingFailure, s.failures),
         locks)

\* ask_for_updates_out that takes any response for a confirmation
ask_for_updates_out_any_response(p) ==
    LET s == proc[p] IN
    /\ s.pc = "ask_for_updates_out"
    /\ Commit(p,
         IF s.out.isNone
         THEN raise(s, GatingFailure, s.failures)
         ELSE call_run_updates(s, s.cli_args.system, TRUE),
         locks)

\* cli.py 69-73, and 85-86 when ask_for_updates returns
ask_for_updates_out(p) ==
    LET s == proc[p] IN
    /\ s.pc = "ask_for_updates_out"
    /\ Commit(p,
         IF s.out.isNone
         THEN raise(s, GatingFailure, s.failures)
         ELSE IF Contains(s.out.stdout, ConfirmAction)
         THEN call_run_updates(s, s.cli_args.system, TRUE)
         ELSE raise(s, GatingFailure, s.failures),
         locks)

\* -------------------------------------------------------------- notify
\* the answer of one notify-send run: with actions offered, the name of the
\* action the user picked is printed, or nothing
Responses(actions) == {<<>>} \cup {<<actions[k]>> : k \in 1..Len(actions)}
ResponseInt(stdout) == IF stdout = <<>> THEN 0 ELSE 1

\* cli.py 17-37 and 56-57: notifications disabled; the direct call of an
\* unprivileged caller; root looks up the active sessions
notify(p) ==
    LET s == proc[p]
        f == s.frame
    IN
    /\ s.pc = "notify"
    /\ \/ /\ ~s.cfg.dbus_notify
          /\ Commit(p, [s EXCEPT !.pc = f.ret, !.out = NoneOut, !.frame = NoFrame],
                    locks)
       \/ /\ s.cfg.dbus_notify
          /\ s.uid # Root
          /\ \E stdout \in Responses(f.actions) :
               Commit(p,
                 [Log(s, Event("notify-send", 0, f.urgency, ResponseInt(stdout)))
                    EXCEPT !.pc = f.ret, !.out = Completed(stdout),
                           !.frame = NoFrame],
                 locks)
       \/ /\ s.cfg.dbus_notify
          /\ s.uid = Root
          /\ \E n \in SessionAnswers :
               LET s1 == Log(s, Event("get_active_sessions", 0, "notify", n)) IN
               Commit(p,
                 IF Sessions(n) = <<>>
                 THEN [s1 EXCEPT !.pc = f.ret, !.out = NoneOut, !.frame = NoFrame]
                 ELSE [s1 EXCEPT !.pc = "notify_user",
                                 !.frame = [f EXCEPT !.users = Sessions(n), !.i = 1]],
                 locks)

\* cli.py 38-55: one round of root's loop over the active sessions
notify_user(p) ==
    LET s == proc[p]
        f == s.frame
        user == f.users[f.i]
    IN
    /\ s.pc = "notify_user"
    /\ \E resolved \in BOOLEAN, stdout \in Responses(f.actions) :
        LET s1 == Log(s, Event("get_xdg_runtime_dir", user, "notify", BoolInt(resolved)))
            s2 == Log(s1, Event("notify-send", user, f.urgency, ResponseInt(stdout)))
        IN  /\ ~resolved => stdout = <<>>
            /\ Commit(p,
                 IF ~resolved
                 THEN [s1 EXCEPT !.pc = f.ret, !.out = NoneOut, !.frame = NoFrame]
                 ELSE IF f.actions # <<>>
                 THEN [s2 EXCEPT !.pc = f.ret, !.out = Completed(stdout),
                                 !.frame = NoFrame]
                 ELSE IF f.i < Len(f.users)
                 THEN [s2 EXCEPT !.frame = [f EXCEPT !.i = f.i + 1]]
                 ELSE [s2 EXCEPT !.pc = f.ret, !.out = NoneOut, !.frame = NoFrame],
                 locks)

\* --------------------------------------------------------- run_updates
AlreadyRunning == "updates are already running for this user"
NeedsRoot == "ublue-update needs to be run as root to perform system updates!"

\* cli.py 90-95: the lock file of the caller
filelock_path(uid, xdg_runtime_dir) ==
    IF uid # Root /\ isdir(xdg_runtime_dir)
    THEN UserLockPath(xdg_runtime_dir)
    ELSE SystemLockPath

\* cli.py 176-177
release_and_exit(p, s) ==
    Commit(p, os_exit([Log(s, Event("release_lock", 0, "", 0)) EXCEPT !.fd = 0], 0),
           release_lock(locks, s.fd))

\* run_updates without the test of the handle acquire_lock returned
run_updates_unchecked(p) ==
    LET s == proc[p]
        path == filelock_path(s.uid, s.environ)
        got == acquire_lock(locks, path, p)
        s1 == Log([s EXCEPT !.filelock_path = path, !.fd = got.fd],
                  Event("acquire_lock", 0, path[1], BoolInt(got.fd # 0)))
    IN
    /\ s.pc = "run_updates"
    /\ IF s.uid # Root /\ s.environ = NoneValue
       THEN Commit(p, raise(s, "TypeError", <<>>), locks)
       ELSE Commit(p, [s1 EXCEPT !.pc = "transaction_wait"], got.locks)

\* cli.py 89-98: os.path.isdir(None) raises a TypeError; a lock that is
\* held makes the invocation fail
run_updates(p) ==
    LET s == proc[p]
        path == filelock_path(s.uid, s.environ)
        got == acquire_lock(locks, path, p)
        s1 == Log([s EXCEPT !.filelock_path = path, !.fd = got.fd],
                  Event("acquire_lock", 0, path[1], BoolInt(got.fd # 0)))
    IN
    /\ s.pc = "run_updates"
    /\ IF s.uid # Root /\ s.environ = NoneValue
       THEN Commit(p, raise(s, "TypeError", <<>>), locks)
       ELSE IF got.fd = 0
       THEN Commit(p, raise(s1, AlreadyRunning, <<>>), got.locks)
       ELSE Commit(p, [s1 EXCEPT !.pc = "transaction_wait"], got.locks)

\* run_updates_wait that goes on without the call of transaction_wait
run_updates_wait_skipped(p) ==
    LET s == proc[p] IN
    /\ s.pc = "transaction_wait"
    /\ IF s.uid = Root
       THEN Commit(p, call_notify(s, <<>>, "normal", "run_updates_system"), locks)
       ELSE IF s.system
       THEN Commit(p, raise(s, NeedsRoot, <<>>), locks)
       ELSE release_and_exit(p, s)

\* cli.py 100-107 and 171-177: the wait for package transactions, then
\* root announces the update and everyone else is done
run_updates_wait(p) ==
    LET s == proc[p]
        s1 == Log(s, Event("transaction_wait", 0, "", 0))
    IN
    /\ s.pc = "transaction_wait"
    /\ IF s.uid = Root
       THEN Commit(p, call_notify(s1, <<>>, "normal", "run_updates_system"), locks)
       ELSE IF s.system
       THEN Commit(p, raise(s1, NeedsRoot, <<>>), locks)
       ELSE release_and_exit(p, s1)

\* after_system_pass without the test of topgrade's status
after_system_pass_unchecked(s, returncode, users) ==
    IF users = <<>>
    THEN [s EXCEPT !.pc = "run_updates_complete"]
    ELSE [s EXCEPT !.pc = "run_updates_user", !.users = users, !.i = 1]

\* cli.py 128-136: a failed system pass ends the run with topgrade's status
after_system_pass(s, returncode, users) ==
    IF returncode # 0
    THEN os_exit(s, returncode)
    ELSE IF users = <<>>
    THEN [s EXCEPT !.pc = "run_updates_complete"]
    ELSE [s EXCEPT !.pc = "run_updates_user", !.users = users, !.i = 1]

\* cli.py 108-133: the sessions to update and the system pass
run_updates_system(p) ==
    LET s == proc[p] IN
    /\ s.pc = "run_updates_system"
    /\ \E n \in SessionAnswers, returncode \in SystemReturnCodes :
        LET users == IF s.system THEN <<>> ELSE Sessions(n)
            s1 == Log(Log(s, Event("get_active_sessions", 0, "run_updates", n)),
                      Event("topgrade", 0, "topgrade-system.toml", returncode))
        IN  Commit(p, after_system_pass(s1, returncode, users), locks)

\* run_updates_user that leaves the loop after the first session's pass
run_updates_user_once(p) ==
    LET s == proc[p]
        user == s.users[s.i]
    IN
    /\ s.pc = "run_updates_user"
    /\ \E resolved \in BOOLEAN, returncode \in UserReturnCodes :
        LET s1 == Log(s, Event("get_xdg_runtime_dir", user, "run_updates", BoolInt(resolved)))
            s2 == Log(s1, Event("topgrade", user, "topgrade-user.toml", returncode))
        IN  /\ ~resolved => returncode = 0
            /\ Commit(p,
                 IF ~resolved
                 THEN [s1 EXCEPT !.pc = "run_updates_complete"]
                 ELSE [s2 EXCEPT !.pc = "run_updates_complete"],
                 locks)

\* cli.py 136-160: one round of the loop over the sessions
run_updates_user(p) ==
    LET s == proc[p]
        user == s.users[s.i]
    IN
    /\ s.pc = "run_updates_user"
    /\ \E resolved \in BOOLEAN, returncode \in UserReturnCodes :
        LET s1 == Log(s, Event("get_xdg_runtime_dir", user, "run_updates", BoolInt(resolved)))
            s2 == Log(s1, Event("topgrade", user, "topgrade-user.toml", returncode))
        IN  /\ ~resolved => returncode = 0
            /\ Commit(p,
                 IF ~resolved
                 THEN [s1 EXCEPT !.pc = "run_updates_complete"]
                 ELSE IF s.i < Len(s.users)
                 THEN [s2 EXCEPT !.i = s.i + 1]
                 ELSE [s2 EXCEPT !.pc = "run_updates_complete"],
                 locks)

\* run_updates_complete that prompts for the reboot whether or not an
\* update was available
run_updates_complete_any_availability(p) ==
    LET s == proc[p] IN
    /\ s.pc = "run_updates_complete"
    /\ \E pending \in BOOLEAN :
        LET s1 == Log(s, Event("pending_deployment_check", 0, "", BoolInt(pending)))
        IN  IF pending /\ s.cfg.dbus_notify
            THEN Commit(p, call_notify(s1, <<RebootAction>>, "normal",
                                       "run_updates_reboot"), locks)
            ELSE release_and_exit(p, s1)

\* cli.py 161-167 and 176-177: the reboot prompt when a deployment is pending
run_updates_complete(p) ==
    LET s == proc[p] IN
    /\ s.pc = "run_updates_complete"
    /\ \E pending \in BOOLEAN :
        LET s1 == Log(s, Event("pending_deployment_check", 0, "", BoolInt(pending)))
        IN  IF pending /\ s.ru_available /\ s.cfg.dbus_notify
            THEN Commit(p, call_notify(s1, <<RebootAction>>, "normal",
                                       "run_updates_reboot"), locks)
            ELSE release_and_exit(p, s1)

\* cli.py 168-177: out.stdout of no response raises an AttributeError
run_updates_reboot(p) ==
    LET s == proc[p] IN
    /\ s.pc = "run_updates_reboot"
    /\ IF s.out.isNone
       THEN Commit(p, raise(s, "AttributeError", <<>>), locks)
       ELSE IF Contains(s.out.stdout, RebootAction)
       THEN release_and_exit(p, Log(s, Event("systemctl reboot", 0, "", 0)))
       ELSE release_and_exit(p, s)

\* ---------------------------------------------------------------- Next
Step(p) ==
    \/ main_wait(p)
    \/ main_checks(p)
    \/ hardware_inhibitor_checks_failed(p)
    \/ ask_for_updates(p)
    \/ ask_for_updates_out(p)
    \/ notify(p)
    \/ notify_user(p)
    \/ run_updates(p)
    \/ run_updates_wait(p)
    \/ run_updates_system(p)
    \/ run_updates_user(p)
    \/ run_updates_complete(p)
    \/ run_updates_reboot(p)

Next == \E p \in Procs : Step(p)

Spec == Init /\ [][Next]_vars

\* ------------------------------------------- concurrent invocations
\* Every process is a forced update run (--force alone, with or without
\* --system), so that each reaches run_updates; the callers, their
\* environments and their configurations are free.
ForcedInvocations ==
    {s \in Invocations :
        /\ s.environ \in XdgValues(s.uid)
        /\ s.cli_args.force
        /\ ~s.cfg.dbus_notify
        /\ ~s.cli_args.check /\ ~s.cli_args.updatecheck /\ ~s.cli_args.wait}

InitConc ==
    /\ locks = [q \in LockPaths |-> 0]
    /\ proc \in [Procs -> ForcedInvocations]

StepConc(p) ==
    \/ main_checks(p)
    \/ notify(p)
    \/ run_updates(p)
    \/ run_updates_wait(p)
    \/ run_updates_system(p)
    \/ run_updates_user(p)
    \/ run_updates_complete(p)

NextConc == \E p \in Procs : StepConc(p)

SpecConc == InitConc /\ [][NextConc]_vars

\* ------------------------------------- a confirmed run beside a forced run
\* Invocation 1 is a gated run with notifications enabled in which every
\* inhibitor check fails (run_updates never reads the reasons).  When it has
\* ended after the user confirmed the escalation, invocation 2 starts: the
\* same caller, environment, configuration and --system flag, with --force.
\* Invocation 2 is given the answers invocation 1 got: an update is
\* available, and each call it makes that invocation 1 made at the same
\* place of run_updates returns what it returned then.
GatedInvocations ==
    {s \in Invocations :
        /\ s.environ \in XdgValues(s.uid)
        /\ s.cfg.dbus_notify
        /\ ~s.cli_args.force /\ ~s.cli_args.check
        /\ ~s.cli_args.updatecheck /\ ~s.cli_args.wait}

Forced(s) == [s EXCEPT !.cli_args = [@ EXCEPT !.force = TRUE]]

InitPair ==
    /\ locks = [q \in LockPaths |-> 0]
    /\ proc \in {[p \in Procs |-> IF p = 1 THEN s ELSE Forced(s)] :
                    s \in GatedInvocations}

\* the calls made since run_updates was called
RunLen(s) == Len(s.trace) - s.entry
RunCall(s, k) == s.trace[s.entry + k]
RunTrace(s) == SubSeq(s.trace, s.entry + 1, Len(s.trace))

Confirmed(tr) ==
    \E k \in DOMAIN tr :
        tr[k].op = "notify-send" /\ tr[k].arg = "critical" /\ tr[k].ans = 1

SameCall(e, f) == e.op = f.op /\ e.user = f.user /\ e.arg = f.arg

Replayed ==
    /\ proc[1].pc # "main" => Len(proc[1].failures) = NumChecks
    /\ \A k \in DOMAIN proc[2].trace :
            proc[2].trace[k].op = "system_update_check"
                => proc[2].trace[k].ans = 1
    /\ proc[2].pc \notin {"main", "run_updates"}
        => \A k \in 1..RunLen(proc[2]) :
                (k <= RunLen(proc[1])
                    /\ SameCall(RunCall(proc[1], k), RunCall(proc[2], k)))
                    => RunCall(proc[1], k).ans = RunCall(proc[2], k).ans

Turn(p) ==
    p = 2 => (proc[1].pc = "done" /\ Confirmed(proc[1].trace))

NextPair ==
    \E p \in Procs :
        \/ Turn(p) /\ main_checks(p) /\ Replayed'
        \/ Turn(p) /\ hardware_inhibitor_checks_failed(p) /\ Replayed'
        \/ Turn(p) /\ ask_for_updates(p) /\ Replayed'
        \/ Turn(p) /\ ask_for_updates_out(p) /\ Replayed'
        \/ Turn(p) /\ notify(p) /\ Replayed'
        \/ Turn(p) /\ notify_user(p) /\ Replayed'
        \/ Turn(p) /\ run_updates(p) /\ Replayed'
        \/ Turn(p) /\ run_updates_wait(p) /\ Replayed'
        \/ Turn(p) /\ run_updates_system(p) /\ Replayed'
        \/ Turn(p) /\ run_updates_user(p) /\ Replayed'
        \/ Turn(p) /\ run_updates_complete(p) /\ Replayed'
        \/ Turn(p) /\ run_updates_reboot(p) /\ Replayed'

SpecPair == InitPair /\ [][NextPair]_vars

\* ------------------------------------------------- reading a trace
Has(tr, op) == \E k \in DOMAIN tr : tr[k].op = op
Count(tr, op) == Cardinality({k \in DOMAIN tr : tr[k].op = op})
Acquired(tr) == \E k \in DOMAIN tr : tr[k].op = "acquire_lock" /\ tr[k].ans = 1
IsSystemPass(e) == e.op = "topgrade" /\ e.arg = "topgrade-system.toml"
IsUserPass(e) == e.op = "topgrade" /\ e.arg = "topgrade-user.toml"
IsEscalation(e) == e.op = "notify" /\ e.arg = ConfirmAction
GateFailed(tr) ==
    \E k \in DOMAIN tr : tr[k].op = "check_hardware_inhibitors" /\ tr[k].ans = 1
Available(tr) ==
    \E k \in DOMAIN tr : tr[k].op = "system_update_check" /\ tr[k].ans = 1
Escalations(tr) == {k \in DOMAIN tr : IsEscalation(tr[k])}
Failed(s) == s.pc = "done" /\ s.result.kind = "exception"
Exited(s, code) == s.pc = "done" /\ s.result.kind = "exit" /\ s.result.code = code
GatedAbort(s) ==
    /\ Failed(s)
    /\ s.result.msg = GatingFailure
    /\ s.result.failures = s.failures

\* an invocation that is to update: not --wait, not --updatecheck, and not
\* --check unless forced
UpdateRun(s) ==
    /\ s.pc # "absent"
    /\ ~s.cli_args.wait
    /\ ~s.cli_args.updatecheck
    /\ s.cli_args.force \/ ~s.cli_args.check

\* ------------------------------------------------------------- claims

\* an invocation inside run_updates, past its acquire_lock call
PastLock(s) ==
    /\ Has(s.trace, "acquire_lock")
    /\ s.pc \notin {"absent", "main", "run_updates", "done"}

\* C1: two invocations with the same lock path are never both past the
\* lock acquisition; the one that is holds the lock; and an invocation
\* whose acquire_lock returned None has ended with the 'already running'
\* failure, having neither waited for transactions nor run an update tool.
C1_SingleInstancePerScope ==
    /\ \A p, q \in Procs :
            (p # q /\ PastLock(proc[p]) /\ PastLock(proc[q]))
                => proc[p].filelock_path # proc[q].filelock_path
    /\ \A p \in Procs :
            PastLock(proc[p])
                => proc[p].fd = p /\ locks[proc[p].filelock_path] = p
    /\ \A p \in Procs :
            (Has(proc[p].trace, "acquire_lock") /\ ~Acquired(proc[p].trace))
                => /\ Failed(proc[p])
                   /\ proc[p].result.msg = AlreadyRunning
                   /\ ~Has(proc[p].trace, "transaction_wait")
                   /\ ~Has(proc[p].trace, "topgrade")

\* C1, its case: one invocation is in run_updates holding the lock while
\* the other, with the same lock path, has failed as 'already running'.
C1_Witness ==
    \E p, q \in Procs :
        /\ p # q
        /\ PastLock(proc[p])
        /\ proc[p].pc = "run_updates_user"
        /\ proc[q].filelock_path = proc[p].filelock_path
        /\ Failed(proc[q])
        /\ proc[q].result.msg = AlreadyRunning

\* C2: every invocation that ends after acquire_lock succeeded has called
\* release_lock exactly once.
C2_ReleasedOnceOnEveryExit ==
    \A p \in Procs :
        (proc[p].pc = "done" /\ Acquired(proc[p].trace))
            => Count(proc[p].trace, "release_lock") = 1

\* C3: an update run of a non-root caller with --system fails, and has
\* neither acquired a lock nor waited for transactions.
C3_SystemFlagNonRootRejectedFirst ==
    \A p \in Procs :
        (UpdateRun(proc[p]) /\ proc[p].uid # Root /\ proc[p].cli_args.system)
            => /\ ~Has(proc[p].trace, "acquire_lock")
               /\ ~Has(proc[p].trace, "transaction_wait")
               /\ proc[p].pc = "done" => Failed(proc[p])

\* C4: the lock path is the system path exactly for root, and for any other
\* caller it lies under that caller's runtime directory.
C4_LockPathByPrivilege ==
    \A p \in Procs :
        Has(proc[p].trace, "acquire_lock")
            => /\ proc[p].filelock_path = SystemLockPath <=> proc[p].uid = Root
               /\ proc[p].uid # Root
                    => proc[p].filelock_path = UserLockPath(RuntimeDir(proc[p].uid))

\* C5: once the system pass has returned a non-zero status the invocation
\* has ended with that status, the system pass was its last call, and no
\* per-user pass has run.
C5_SystemToolFailureIsFatal ==
    \A p \in Procs :
        \A k \in DOMAIN proc[p].trace :
            (IsSystemPass(proc[p].trace[k]) /\ proc[p].trace[k].ans # 0)
                => /\ Exited(proc[p], proc[p].trace[k].ans)
                   /\ k = Len(proc[p].trace)
                   /\ \A j \in DOMAIN proc[p].trace : ~IsUserPass(proc[p].trace[j])

\* C5, its case: a root run that is not system-only found every session
\* active and its system pass returned 2.
C5_Witness ==
    \E p \in Procs :
        \E k \in DOMAIN proc[p].trace :
            /\ IsSystemPass(proc[p].trace[k])
            /\ proc[p].trace[k].ans = 2
            /\ ~proc[p].system
            /\ proc[p].trace[k - 1].op = "get_active_sessions"
            /\ proc[p].trace[k - 1].ans = MaxSessions
            /\ proc[p].pc = "done"

UserPassRun(tr, u) == \E k \in DOMAIN tr : IsUserPass(tr[k]) /\ tr[k].user = u
UserPassFailed(tr) == \E k \in DOMAIN tr : IsUserPass(tr[k]) /\ tr[k].ans # 0
Unresolved(tr, u) ==
    \E k \in DOMAIN tr :
        /\ tr[k].op = "get_xdg_runtime_dir"
        /\ tr[k].arg = "run_updates"
        /\ tr[k].user = u
        /\ tr[k].ans = 0

\* C6: a root run that is not system-only and in which a per-user pass
\* returned a non-zero status ends with the pass attempted for every session
\* but those whose runtime directory could not be resolved, the lock
\* released and status 0.
C6_UserFailureIsolated ==
    \A p \in Procs :
        (proc[p].pc = "done" /\ proc[p].uid = Root /\ ~proc[p].system
            /\ UserPassFailed(proc[p].trace))
            => /\ \A u \in 1..Len(proc[p].users) :
                    UserPassRun(proc[p].trace, u) \/ Unresolved(proc[p].trace, u)
               /\ Count(proc[p].trace, "release_lock") = 1
               /\ Exited(proc[p], 0)

\* C7: when the loop over the sessions of a root run has ended, every
\* session has had its pass, except those whose own runtime directory could
\* not be resolved.
C7_OnlyBrokenSessionSkipped ==
    \A p \in Procs :
        (proc[p].uid = Root /\ proc[p].users # <<>>
            /\ proc[p].pc # "run_updates_user")
            => \A u \in 1..Len(proc[p].users) :
                    UserPassRun(proc[p].trace, u) \/ Unresolved(proc[p].trace, u)

\* C8: when the inhibitor gate failed and no update is available, no
\* notification is dispatched, no lock is acquired, and the invocation ends
\* with the gating failure that carries the failure reasons.
C8_NoEscalationWithoutUpdate ==
    \A p \in Procs :
        (GateFailed(proc[p].trace) /\ ~Available(proc[p].trace))
            => /\ ~Has(proc[p].trace, "notify")
               /\ ~Has(proc[p].trace, "notify-send")
               /\ ~Has(proc[p].trace, "acquire_lock")
               /\ proc[p].pc \in {"hardware_inhibitor_checks_failed", "done"}
               /\ proc[p].pc = "done" => GatedAbort(proc[p])

\* C8, its case: notifications are enabled, the run is not --check, the gate
\* failed, no update is available, and the invocation has ended.
C8_Witness ==
    \E p \in Procs :
        /\ GateFailed(proc[p].trace)
        /\ ~Available(proc[p].trace)
        /\ proc[p].cfg.dbus_notify
        /\ ~proc[p].cli_args.check
        /\ Len(proc[p].failures) = NumChecks
        /\ GatedAbort(proc[p])

EscalatedOnceBeforeLock(s) ==
    /\ Cardinality(Escalations(s.trace)) = 1
    /\ \A k \in DOMAIN s.trace :
            s.trace[k].op = "acquire_lock"
                => \A e \in Escalations(s.trace) : e < k
    /\ Cardinality({k \in DOMAIN s.trace :
            s.trace[k].op = "notify-send" /\ s.trace[k].arg = "critical"}) <= 1

\* C9 as stated: every run whose gate failed with an update available and
\* notifications enabled dispatches exactly one escalation, before any lock.
C9_EscalationInEveryGatedRun ==
    \A p \in Procs :
        (GateFailed(proc[p].trace) /\ Available(proc[p].trace)
            /\ proc[p].cfg.dbus_notify /\ proc[p].pc = "done")
            => EscalatedOnceBeforeLock(proc[p])

\* C9 amended: in a run without --check whose gate failed with an update
\* available and notifications enabled, once ask_for_updates has acted
\* exactly one escalation carrying the confirm action has been handed to
\* notify, it reached at most one session, and it precedes every
\* acquire_lock.
C9_EscalationOnceBeforeLock ==
    \A p \in Procs :
        (GateFailed(proc[p].trace) /\ Available(proc[p].trace)
            /\ proc[p].cfg.dbus_notify /\ ~proc[p].cli_args.check
            /\ proc[p].pc \notin {"hardware_inhibitor_checks_failed",
                                  "ask_for_updates"})
            => EscalatedOnceBeforeLock(proc[p])

\* C9, its case: the escalation was confirmed and the run went on to
\* acquire the lock.
C9_Witness ==
    \E p \in Procs :
        /\ GateFailed(proc[p].trace)
        /\ Available(proc[p].trace)
        /\ proc[p].cfg.dbus_notify
        /\ ~proc[p].cli_args.check
        /\ Acquired(proc[p].trace)
        /\ proc[p].pc = "done"

\* C10: a run the user confirmed after the gate failed makes, from
\* acquire_lock on, the calls a forced run with the same --system flag and
\* the same update availability makes when given the same answers, and ends
\* with the same result, which is never the gating failure.
C10_ConfirmedRunsAsForced ==
    Confirmed(proc[1].trace)
        => /\ proc[1].pc = "done" => proc[1].result.msg # GatingFailure
           /\ proc[2].pc # "main"
                => /\ proc[2].system = proc[1].system
                   /\ proc[2].ru_available = proc[1].ru_available
                   /\ RunLen(proc[2]) <= RunLen(proc[1])
                   /\ \A k \in 1..RunLen(proc[2]) :
                        RunCall(proc[2], k) = RunCall(proc[1], k)
           /\ proc[2].pc = "done"
                => /\ RunTrace(proc[2]) = RunTrace(proc[1])
                   /\ proc[2].result = proc[1].result

\* C10, its case: root's confirmed system-only run and the forced run
\* beside it have both ended after the lock, the wait and the system pass.
C10_Witness ==
    /\ Confirmed(proc[1].trace)
    /\ proc[1].uid = Root
    /\ proc[1].cli_args.system
    /\ proc[1].pc = "done"
    /\ proc[2].pc = "done"
    /\ Has(proc[2].trace, "release_lock")
    /\ Has(proc[1].trace, "transaction_wait")
    /\ \E k \in DOMAIN proc[1].trace : IsSystemPass(proc[1].trace[k])

\* the escalation was handed to notify / has come back to ask_for_updates
Escalated(s) == Escalations(s.trace) # {}
Answered(s) ==
    Escalated(s) /\ s.pc \notin {"ask_for_updates", "notify", "notify_user",
                                  "ask_for_updates_out"}

\* the reasons are those of the failing checks, in the order of the checks
InCheckOrder(failures) ==
    /\ failures # <<>>
    /\ \A k \in DOMAIN failures : failures[k] \in 1..NumChecks
    /\ \A j, k \in DOMAIN failures : j < k => failures[j] < failures[k]

\* C11: when the gate failed with an update available and the escalation
\* brought no confirm action (a response without action, or no response),
\* no lock is acquired, no transaction wait and no update tool is run, and
\* the invocation ends with the gating failure that reports every failure
\* reason in check order.
C11_UnconfirmedEscalationAborts ==
    \A p \in Procs :
        (GateFailed(proc[p].trace) /\ Available(proc[p].trace)
            /\ Escalated(proc[p]) /\ ~Confirmed(proc[p].trace))
            => /\ ~Has(proc[p].trace, "acquire_lock")
               /\ ~Has(proc[p].trace, "transaction_wait")
               /\ ~Has(proc[p].trace, "topgrade")
               /\ Answered(proc[p])
                    => /\ GatedAbort(proc[p])
                       /\ InCheckOrder(proc[p].result.failures)

\* C11, its case: every check failed, the one session asked answered
\* without picking an action, and the invocation has ended.
C11_Witness ==
    \E p \in Procs :
        /\ GateFailed(proc[p].trace)
        /\ Available(proc[p].trace)
        /\ Len(proc[p].failures) = NumChecks
        /\ \E k \in DOMAIN proc[p].trace :
                /\ proc[p].trace[k].op = "notify-send"
                /\ proc[p].trace[k].arg = "critical"
                /\ proc[p].trace[k].ans = 0
        /\ proc[p].pc = "done"

GatePassed(tr) ==
    \E k \in DOMAIN tr : tr[k].op = "check_hardware_inhibitors" /\ tr[k].ans = 0

\* C12: an invocation with --check, without --force, --updatecheck and
\* --wait, whose inhibitor checks all passed has exited with status 0 and
\* has acquired no lock, waited for no transaction and run no update tool.
C12_CheckPassesExitsClean ==
    \A p \in Procs :
        (proc[p].cli_args.check /\ ~proc[p].cli_args.force
            /\ ~proc[p].cli_args.updatecheck /\ ~proc[p].cli_args.wait
            /\ GatePassed(proc[p].trace))
            => /\ Exited(proc[p], 0)
               /\ ~Has(proc[p].trace, "acquire_lock")
               /\ ~Has(proc[p].trace, "transaction_wait")
               /\ ~Has(proc[p].trace, "topgrade")

\* C12, its case: root's --check --system with an update available passed
\* the gate and has ended.
C12_Witness ==
    \E p \in Procs :
        /\ proc[p].cli_args.check /\ ~proc[p].cli_args.force
        /\ ~proc[p].cli_args.updatecheck /\ ~proc[p].cli_args.wait
        /\ proc[p].cli_args.system
        /\ proc[p].uid = Root
        /\ Available(proc[p].trace)
        /\ GatePassed(proc[p].trace)
        /\ proc[p].pc = "done"

\* the update-tool invocations of a trace, in order: the configuration and
\* the session user of each
IsTopgrade(e) == e.op = "topgrade"
Passes(tr) ==
    LET calls == SelectSeq(tr, IsTopgrade)
    IN  [k \in DOMAIN calls |-> <<calls[k].arg, calls[k].user>>]

\* one system pass, then one pass per session 1..n in resolution order
ExpectedPasses(n) ==
    <<<<"topgrade-system.toml", 0>>>>
        \o [k \in 1..n |-> <<"topgrade-user.toml", k>>]

IsPrefix(a, b) == Len(a) <= Len(b) /\ \A k \in DOMAIN a : a[k] = b[k]

\* the sessions get_active_sessions reported to run_updates: -2 before the
\* call, -1 for a KeyError
SessionsResolved(tr) ==
    IF \E k \in DOMAIN tr :
            tr[k].op = "get_active_sessions" /\ tr[k].arg = "run_updates"
    THEN (CHOOSE e \in {tr[k] : k \in DOMAIN tr} :
            e.op = "get_active_sessions" /\ e.arg = "run_updates").ans
    ELSE -2

AllResolvable(tr) ==
    \A k \in DOMAIN tr :
        (tr[k].op = "get_xdg_runtime_dir" /\ tr[k].arg = "run_updates")
            => tr[k].ans = 1

SystemPassSucceeded(tr) ==
    \E k \in DOMAIN tr : IsSystemPass(tr[k]) /\ tr[k].ans = 0

LoopEnded(s) ==
    s.pc = "run_updates_complete" \/ Has(s.trace, "pending_deployment_check")

\* C13: in a root run that is not system-only, with N sessions reported,
\* every runtime directory resolved and the system pass succeeded, the
\* update-tool invocations made so far are a prefix of: the system pass
\* once, then the pass of each session 1..N in resolution order; and they
\* are all of them when the loop over the sessions has ended.
C13_OneSystemPassThenEachSession ==
    \A p \in Procs :
        (proc[p].uid = Root /\ ~proc[p].system
            /\ SessionsResolved(proc[p].trace) >= 0
            /\ AllResolvable(proc[p].trace)
            /\ SystemPassSucceeded(proc[p].trace))
            => /\ IsPrefix(Passes(proc[p].trace),
                           ExpectedPasses(SessionsResolved(proc[p].trace)))
               /\ LoopEnded(proc[p])
                    => Passes(proc[p].trace)
                        = ExpectedPasses(SessionsResolved(proc[p].trace))

\* C13, its case: the gate passed, root's run found every session active,
\* resolved each of them, and has ended.
C13_Witness ==
    \E p \in Procs :
        /\ proc[p].uid = Root /\ ~proc[p].system
        /\ GatePassed(proc[p].trace)
        /\ SessionsResolved(proc[p].trace) = MaxSessions
        /\ AllResolvable(proc[p].trace)
        /\ SystemPassSucceeded(proc[p].trace)
        /\ Len(Passes(proc[p].trace)) = MaxSessions + 1
        /\ proc[p].pc = "done"

\* a notification without actions handed to notify
IsPlainNotification(e) == e.op = "notify" /\ e.arg = ""
PlainNotifications(tr) == {k \in DOMAIN tr : IsPlainNotification(tr[k])}

\* C14: a root run with notifications enabled that completed the system
\* pass and the per-user passes has dispatched exactly one notification
\* without actions, and dispatched it after its last update-tool invocation.
C14_CompletionNotifiedOnceAfterPasses ==
    \A p \in Procs :
        (proc[p].uid = Root /\ proc[p].cfg.dbus_notify
            /\ SystemPassSucceeded(proc[p].trace) /\ LoopEnded(proc[p])
            /\ proc[p].pc = "done")
            => /\ Cardinality(PlainNotifications(proc[p].trace)) = 1
               /\ \A n \in PlainNotifications(proc[p].trace) :
                    \A k \in DOMAIN proc[p].trace :
                        IsTopgrade(proc[p].trace[k]) => k < n

\* the last call of notify in a trace, and what that call did
LastNotify(tr) ==
    CHOOSE k \in DOMAIN tr :
        tr[k].op = "notify" /\ \A j \in DOMAIN tr : tr[j].op = "notify" => j <= k
Since(tr, k, op) == {j \in DOMAIN tr : j > k /\ tr[j].op = op}
Prompted(tr, k) == {tr[j].user : j \in Since(tr, k, "notify-send")}
ActionPicked(tr, k) == \E j \in Since(tr, k, "notify-send") : tr[j].ans = 1

\* C15: when root's notify call with actions has returned, having found
\* several sessions with resolvable runtime directories, either the last
\* session it prompted picked an action, or every session was prompted.
C15_PromptsUntilAnAction ==
    \A p \in Procs :
        (proc[p].uid = Root
            /\ proc[p].pc \in {"ask_for_updates_out", "run_updates_reboot"}
            /\ \E g \in Since(proc[p].trace, LastNotify(proc[p].trace),
                              "get_active_sessions") :
                    proc[p].trace[g].ans > 1
            /\ \A x \in Since(proc[p].trace, LastNotify(proc[p].trace),
                              "get_xdg_runtime_dir") :
                    proc[p].trace[x].ans = 1)
            => LET tr == proc[p].trace
                   k == LastNotify(tr)
                   g == CHOOSE j \in Since(tr, k, "get_active_sessions") : TRUE
               IN  \/ ActionPicked(tr, k)
                   \/ Prompted(tr, k) = 1..tr[g].ans

IsRebootPrompt(e) == e.op = "notify" /\ e.arg = RebootAction
RebootPrompted(tr) == \E k \in DOMAIN tr : IsRebootPrompt(tr[k])

\* the reboot prompt came back from notify without a response
NoRebootResponse(s) ==
    /\ RebootPrompted(s.trace)
    /\ s.pc \in {"run_updates_reboot", "done"}
    /\ Since(s.trace, LastNotify(s.trace), "notify-send") = {}

\* C16: a root run whose reboot prompt got no response requests no reboot
\* and ends with the lock released and status 0; and an escalation without
\* response ends in the gating failure, not in another error.
C16_AbsentResponseIsNoAction ==
    \A p \in Procs :
        /\ (proc[p].uid = Root /\ NoRebootResponse(proc[p]))
            => /\ ~Has(proc[p].trace, "systemctl reboot")
               /\ proc[p].pc = "done"
                    => /\ Count(proc[p].trace, "release_lock") = 1
                       /\ Exited(proc[p], 0)
        /\ (Escalated(proc[p]) /\ ~RebootPrompted(proc[p].trace)
                /\ ~Has(proc[p].trace, "notify-send") /\ proc[p].pc = "done")
            => GatedAbort(proc[p])

Before(tr, k, op) == {j \in DOMAIN tr : j < k /\ tr[j].op = op}

\* C17: every update-tool invocation was made after acquire_lock returned
\* a handle to this invocation and after its transaction_wait returned, and
\* before any release_lock; every per-user pass was made after the system
\* pass returned status 0; and while a pass may still be made the handle is
\* kept.
C17_PassesUnderLockAfterWait ==
    \A p \in Procs :
        /\ \A k \in DOMAIN proc[p].trace :
            IsTopgrade(proc[p].trace[k])
                => /\ \E j \in Before(proc[p].trace, k, "acquire_lock") :
                        proc[p].trace[j].ans = 1
                   /\ Before(proc[p].trace, k, "transaction_wait") # {}
                   /\ \A a \in Before(proc[p].trace, k, "acquire_lock") :
                        \E w \in Before(proc[p].trace, k, "transaction_wait") :
                            a < w
                   /\ Before(proc[p].trace, k, "release_lock") = {}
                   /\ IsUserPass(proc[p].trace[k])
                        => \E j \in Before(proc[p].trace, k, "topgrade") :
                            /\ IsSystemPass(proc[p].trace[j])
                            /\ proc[p].trace[j].ans = 0
        /\ proc[p].pc \in {"run_updates_system", "run_updates_user"}
            => proc[p].fd = p

\* C17, its case: a run has made the system pass and the pass of every
\* session and has ended.
C17_Witness ==
    \E p \in Procs :
        /\ Len(Passes(proc[p].trace)) = MaxSessions + 1
        /\ Has(proc[p].trace, "release_lock")
        /\ proc[p].pc = "done"

\* C18: an invocation with --check and without --wait, whatever its other
\* flags, acquires no lock and runs no update tool.
C18_CheckNeverUpdates ==
    \A p \in Procs :
        (proc[p].cli_args.check /\ ~proc[p].cli_args.wait)
            => /\ ~Has(proc[p].trace, "acquire_lock")
               /\ ~Has(proc[p].trace, "topgrade")

IsReboot(e) == e.op = "systemctl reboot"

\* C19: a reboot is requested at most once, and only by root with
\* notifications enabled, after the system pass returned 0 and every
\* update-tool invocation of the run, after pending_deployment_check
\* reported a pending deployment, with an update available, and after a
\* session answered the reboot prompt by picking the reboot action.
C19_RebootOnlyWhenConfirmed ==
    \A p \in Procs :
        /\ Count(proc[p].trace, "systemctl reboot") <= 1
        /\ \A r \in DOMAIN proc[p].trace :
            IsReboot(proc[p].trace[r])
                => LET tr == proc[p].trace IN
                   /\ proc[p].uid = Root
                   /\ proc[p].cfg.dbus_notify
                   /\ Available(tr)
                   /\ proc[p].ru_available
                   /\ SystemPassSucceeded(tr)
                   /\ \A k \in DOMAIN tr : IsTopgrade(tr[k]) => k < r
                   /\ \E d \in Before(tr, r, "pending_deployment_check") :
                        /\ tr[d].ans = 1
                        /\ \A k \in DOMAIN tr : IsTopgrade(tr[k]) => k < d
                        /\ \E n \in DOMAIN tr :
                            /\ d < n /\ n < r
                            /\ IsRebootPrompt(tr[n])
                            /\ tr[r - 1].op = "notify-send"
                            /\ tr[r - 1].ans = 1
                            /\ n < r - 1

\* C19, its case: a session picked the reboot action after the passes of a
\* run over every session, and the run has ended.
C19_Witness ==
    \E p \in Procs :
        /\ Has(proc[p].trace, "systemctl reboot")
        /\ Len(Passes(proc[p].trace)) = MaxSessions + 1
        /\ proc[p].pc = "done"

\* C20: a run of a caller other than root, without --system, that entered
\* run_updates and has ended, acquired the lock under the caller's runtime
\* directory, waited for transactions, ran no update tool, sent no
\* notification, requested no reboot, released the lock once and exited
\* with status 0.
C20_NonRootRunOnlyLocksAndWaits ==
    \A p \in Procs :
        (proc[p].uid # Root /\ ~proc[p].cli_args.system
            /\ proc[p].entry > 0 /\ proc[p].pc = "done")
            => /\ Acquired(proc[p].trace)
               /\ proc[p].filelock_path = UserLockPath(RuntimeDir(proc[p].uid))
               /\ Count(proc[p].trace, "transaction_wait") = 1
               /\ ~Has(proc[p].trace, "topgrade")
               /\ \A k \in DOMAIN proc[p].trace :
                    (k > proc[p].entry)
                        => proc[p].trace[k].op \notin {"notify", "notify-send"}
               /\ ~Has(proc[p].trace, "systemctl reboot")
               /\ Count(proc[p].trace, "release_lock") = 1
               /\ Exited(proc[p], 0)

====
